---- MODULE Spec2Model ----
(***************************************************************************)
(* Scoring and settlement pipeline of the pick'em application: pick        *)
(* submission (POST /api/pick/create), game status refresh, player         *)
(* performance sync, mock results and point calculation                    *)
(* (POST /api/pick/calculate, with its cron trigger).                      *)
(*                                                                         *)
(* One game is followed from "scheduled" to "final".  The database tables  *)
(* Pick, PlayerPerformance, LeagueMembership and Game are the state; the   *)
(* NHL box score is the environment.                                       *)
(***************************************************************************)
EXTENDS Integers, Sequences, FiniteSets, TLC

----------------------------------------------------------------------------
(* Bounds *)

\* the wall clock runs over 0..MaxNow
MaxNow == 1
\* scoring rules are evaluated for scores of 0..MaxGoals goals, for lists of at
\* most MaxEvents goal events and assist events
MaxGoals == 5
MaxEvents == 2
\* upstream: each side scores at most MaxScore goals
MaxScore == 1
\* a user's points of one game in the client's storage are 0..MaxPoints
MaxPoints == 2

----------------------------------------------------------------------------
(* Fixed data *)

\* a null reference (string-valued columns) and a null score (integer columns)
Null == "null"
NoScore == -1

\* scheduled start of the game (Game.gameDate) on the model's clock
GameDate == 1

\* a JavaScript `x || null` on a number: 0 is falsy
OrNull(n) == IF n = 0 THEN NoScore ELSE n

Leagues == {"L1"}
\* authenticated users; "x" is a member of no league
Users == {"a", "m", "x"}
\* LeagueMembership rows: (league, user) -> role
Roles == [l \in Leagues, u \in {"a", "m"} |-> IF u = "a" THEN "admin" ELSE "member"]
MemberKeys == DOMAIN Roles

\* Player rows (roster): id -> position; every player has an nhlPlayerId
Players == {"F1", "K1"}
Position(p) == IF p = "F1" THEN "Forward" ELSE "Goalie"

\* request bodies of POST /api/pick/create: a team pick, a pick of each
\* roster player, and a pick naming a player id that is not in the roster
Selections ==
  {[pickType |-> "team", playerId |-> Null, playerName |-> "Red Wings"]}
  \cup {[pickType |-> "player", playerId |-> p, playerName |-> p] : p \in Players}
  \cup {[pickType |-> "player", playerId |-> "P0", playerName |-> "P0"]}

----------------------------------------------------------------------------
(* State *)

VARIABLES
  now,      \* wall clock
  nhl,      \* upstream game: gameState, Detroit's and the opponent's goals
  game,     \* Game row: status, homeScore, awayScore, isHome, hasPk
  picks,    \* Pick rows (a set of records with their own id)
  perf,     \* PlayerPerformance rows of the game: player -> stats
  members,  \* LeagueMembership rows: (league, user) -> totalPoints
  proc,     \* in-flight invocations of POST /api/pick/calculate
  scored,   \* history: ids of picks whose pointsEarned settlement has written
  last,     \* history: summary of the last completed request
  draft,    \* draft order of a league: LeagueMembership.draftPosition per member
  fx,       \* the last evaluation of a scoring rule: its arguments and result
  sub,      \* in-flight invocations of POST /api/pick/create
  rot       \* in-flight invocations of POST /api/league/[id]/rotate-draft

vars == <<now, nhl, game, picks, perf, members, proc, scored, last, draft, fx, sub,
          rot>>

\* the tables and histories of the scoring pipeline
core == <<now, nhl, game, picks, perf, members, proc, scored, last>>

Procs == {1, 2}

\* no pick row
NoId == <<>>

NoFault == [at |-> "none", n |-> 0]
NoData == [ok |-> FALSE, playerStats |-> {}, goalieStats |-> <<>>,
           isOvertime |-> FALSE, isShootout |-> FALSE]

\* local state of one invocation of the calculate handler
IdleLoc == [pc |-> "idle", snap |-> <<>>, i |-> 0, ulp |-> <<>>, j |-> 0,
            sd |-> NoData, redWingsScore |-> NoScore, opponentScore |-> NoScore,
            updated |-> {}, synth |-> {}, crashed |-> NoId, rewrote |-> FALSE,
            fault |-> NoFault, resp |-> "none", before |-> <<>>, op |-> "none"]

\* op, resp: the request and its response; before: totalPoints before it;
\* prev: the response ("ok" or "error") of the calculation that directly
\* precedes this one, "none" if the preceding request was anything else;
\* snap, updated, synth, crashed, faulted: a calculation's picks, the picks it
\* wrote, the picks it made a zero record for, the pick whose scoring threw,
\* whether a database call rejected, and whether it wrote the points of a
\* pick that a calculation had written before;
\* role, late, changedLocked, stored: a pick request's requester, whether it
\* came at or after the start, whether it changed a locked pick, and whether
\* the target's row holds the requested selection afterwards
NoLast == [op |-> "none", resp |-> "none", before |-> <<>>, prev |-> "none",
           snap |-> {}, updated |-> {}, synth |-> {}, crashed |-> NoId,
           faulted |-> FALSE, rewrote |-> FALSE,
           role |-> "none", late |-> FALSE, changedLocked |-> FALSE,
           stored |-> FALSE]

\* the league whose draft order is followed: users that may join it, and its
\* creator, who is its admin
DraftUsers == {"u1", "u2", "u3", "u4"}
DraftAdmin == "u1"

\* draftPosition is null
NoPosition == 0

\* position: the members' draftPosition; op, resp, before: the last draft
\* request, its response and, for a rotation, the positions before it
DraftInit ==
  [position |-> [u \in {DraftAdmin} |-> NoPosition],
   op |-> "none", resp |-> "none", before |-> <<>>]

\* local state of one invocation of the create-pick handler: the request,
\* the id of the pick its lookup found, its response, and whether its create
\* hit the uniqueness constraint
IdleSub == [pc |-> "idle", l |-> Null, u |-> Null, t |-> Null, sel |-> <<>>,
            existingPick |-> NoId, resp |-> "none", p2002 |-> FALSE]

\* local state of one invocation of the rotate-draft handler: updates, the
\* position each update it has still to issue writes to a member
IdleRot == [pc |-> "idle", updates |-> <<>>]

\* no scoring rule evaluated yet
NoEval == [fn |-> "none"]

Totals == [k \in MemberKeys |-> members[k].totalPoints]

\* the record of a completed request that is not a settlement
Done(op, resp) ==
  [NoLast EXCEPT !.op = op, !.resp = resp, !.before = Totals]

Init ==
  /\ now = 0
  /\ nhl = [gameState |-> "FUT", det |-> 0, opp |-> 0]
  \* a home game, either synced from the NHL schedule or a mock game
  /\ \E pk \in BOOLEAN :
       game = [status |-> "scheduled", homeScore |-> NoScore, awayScore |-> NoScore,
               isHome |-> TRUE, hasPk |-> pk]
  /\ picks = {}
  /\ perf = <<>>
  /\ members = [k \in MemberKeys |-> [role |-> Roles[k], totalPoints |-> 0]]
  /\ proc = [p \in Procs |-> IdleLoc]
  /\ scored = {}
  /\ last = NoLast
  /\ draft = DraftInit
  /\ fx = NoEval
  /\ sub = [p \in Procs |-> IdleSub]
  /\ rot = [p \in Procs |-> IdleRot]

----------------------------------------------------------------------------
(* Environment: the clock and the real game *)

Tick ==
  /\ now < MaxNow
  /\ now' = now + 1
  /\ UNCHANGED <<draft, fx, sub, rot, nhl, game, picks, perf, members, proc, scored, last>>

\* the puck drops at or after the scheduled start
NhlStart ==
  /\ game.hasPk /\ nhl.gameState = "FUT" /\ now >= GameDate
  /\ nhl' = [nhl EXCEPT !.gameState = "LIVE"]
  /\ UNCHANGED <<draft, fx, sub, rot, now, game, picks, perf, members, proc, scored, last>>

\* a goal: by Detroit (F1 scores Detroit's goals) or by the opponent
NhlGoal ==
  /\ nhl.gameState = "LIVE"
  /\ \/ /\ nhl.det < MaxScore
        /\ nhl' = [nhl EXCEPT !.det = @ + 1]
     \/ /\ nhl.opp < MaxScore
        /\ nhl' = [nhl EXCEPT !.opp = @ + 1]
  /\ UNCHANGED <<draft, fx, sub, rot, now, game, picks, perf, members, proc, scored, last>>

\* the game ends; a hockey game has a winner
NhlEnd ==
  /\ nhl.gameState = "LIVE" /\ nhl.det # nhl.opp
  /\ nhl' = [nhl EXCEPT !.gameState = "OFF"]
  /\ UNCHANGED <<draft, fx, sub, rot, now, game, picks, perf, members, proc, scored, last>>

\* the game states the upstream API reports ('OFF', 'FUT', 'LIVE', etc.);
\* "CRIT" stands for the states the status refresh does not name
UpstreamStates == {"FUT", "PRE", "LIVE", "CRIT", "OFF", "OFFICIAL"}

\* the upstream API reports any game state with any score: nothing in the
\* program constrains what a fetch returns
NhlReport ==
  /\ game.hasPk
  /\ \E gs \in UpstreamStates, d \in 0..MaxScore, o \in 0..MaxScore :
       nhl' = [gameState |-> gs, det |-> d, opp |-> o]
  /\ UNCHANGED <<draft, fx, sub, rot, now, game, picks, perf, members, proc, scored, last>>

----------------------------------------------------------------------------
(* POST /api/pick/create *)

PicksOf(l) == {r \in picks : r.leagueId = l}
PickOf(u, l) == {r \in picks : r.userId = u /\ r.leagueId = l}
IsMember(l, u) == <<l, u>> \in MemberKeys
MembersOf(l) == {k \in MemberKeys : k[1] = l}

\* picks lock when the game starts
gameStarted == now >= GameDate

\* the lock check for a non-admin requester; "pass" lets the request through
LockCheck(isAdminUser) ==
  IF isAdminUser THEN "pass"
  ELSE IF game.status = "final" THEN "locked_final"
  ELSE IF gameStarted /\ game.status # "scheduled" THEN "locked_started"
  ELSE "pass"

\* variant: the membership of the target user is not verified
AuthorizeAnyTarget(l, u, t) ==
  IF ~IsMember(l, u) THEN "not_member"
  ELSE IF t # Null /\ t # u /\ Roles[l, u] # "admin" THEN "admin_only"
  ELSE LockCheck(Roles[l, u] = "admin")

\* membership of the requester, the target user, and the lock check
Authorize(l, u, t) ==
  IF ~IsMember(l, u) THEN "not_member"
  ELSE IF t # Null /\ t # u /\ Roles[l, u] # "admin" THEN "admin_only"
  ELSE IF t # Null /\ t # u /\ ~IsMember(l, t) THEN "target_not_member"
  ELSE LockCheck(Roles[l, u] = "admin")

\* the columns a create or an update stores for a request body
StoredSel(sel) ==
  LET isTeamPick == sel.pickType = "team" IN
  [playerId |-> IF isTeamPick THEN Null ELSE sel.playerId,
   playerName |-> sel.playerName,
   pickType |-> IF isTeamPick THEN "team" ELSE "player"]

\* variant: the foreign key is not enforced
PlayerFkOff(playerId) == TRUE

\* Pick_playerId_fkey
PlayerFkOk(playerId) == playerId = Null \/ playerId \in Players

\* Pick_userId_leagueId_gameId_key
UniqueOk(rows, u, l) == \A r \in rows : ~(r.userId = u /\ r.leagueId = l)

\* variant: the picks lock one pick early
LockAllEarly(rows, l) ==
  IF Cardinality({r \in rows : r.leagueId = l}) >= Cardinality(MembersOf(l)) - 1
  THEN {IF r.leagueId = l THEN [r EXCEPT !.locked = TRUE] ELSE r : r \in rows}
  ELSE rows

\* when every member of the league has a pick, all picks of the league lock
LockAll(rows, l) ==
  IF Cardinality({r \in rows : r.leagueId = l}) = Cardinality(MembersOf(l))
  THEN {IF r.leagueId = l THEN [r EXCEPT !.locked = TRUE] ELSE r : r \in rows}
  ELSE rows

\* variant: the update path inserts a second row instead of changing the row
UpdatePickInsert(rows, old, st) ==
  rows \cup {[old EXCEPT !.playerId = st.playerId,
                         !.playerName = st.playerName,
                         !.pickType = st.pickType]}

UpdatePick(rows, old, st) ==
  (rows \ {old}) \cup {[old EXCEPT !.playerId = st.playerId,
                                    !.playerName = st.playerName,
                                    !.pickType = st.pickType]}

\* a fresh row id: ids are opaque, distinct from every id in the table
NewId(rows, u, l) ==
  <<u, l, Cardinality({r \in rows : r.userId = u /\ r.leagueId = l})>>

CreatePick(rows, u, l, st) ==
  rows \cup {[id |-> NewId(rows, u, l), userId |-> u, leagueId |-> l,
              playerId |-> st.playerId, playerName |-> st.playerName,
              pickType |-> st.pickType, pointsEarned |-> 0, locked |-> FALSE]}

\* the whole handler: the response and the Pick table it leaves
SubmitResult(l, u, t, sel) ==
  LET auth == Authorize(l, u, t)
      pickUserId == IF t # Null THEN t ELSE u
      st == StoredSel(sel)
      existing == PickOf(pickUserId, l)
  IN IF auth # "pass" THEN [resp |-> auth, picks |-> picks]
     ELSE IF existing # {}
       THEN IF ~PlayerFkOk(st.playerId)
              THEN [resp |-> "invalid_reference", picks |-> picks]
              ELSE [resp |-> "updated",
                    picks |-> LockAll(UpdatePick(picks, CHOOSE r \in existing : TRUE, st), l)]
     ELSE IF st.pickType # "team" /\ st.playerId \notin Players
       THEN [resp |-> "player_not_found", picks |-> picks]
     ELSE IF ~UniqueOk(picks, pickUserId, l)
       THEN [resp |-> "constraint", picks |-> picks]
     ELSE [resp |-> "created",
           picks |-> LockAll(CreatePick(picks, pickUserId, l, st), l)]

SameSel(r1, r2) ==
  /\ r1.playerId = r2.playerId
  /\ r1.playerName = r2.playerName
  /\ r1.pickType = r2.pickType

SubmitPick ==
  \E l \in Leagues, u \in Users, sel \in Selections :
  \E t \in (Users \ {u}) \cup {Null} :
    LET res == SubmitResult(l, u, t, sel) IN
    /\ picks' = res.picks
    /\ last' = [Done("submit", res.resp) EXCEPT
                  !.role = IF IsMember(l, u) THEN Roles[l, u] ELSE "none",
                  !.late = gameStarted,
                  !.changedLocked =
                     \E r \in picks : r.locked /\
                        \A r2 \in res.picks : r2.id = r.id => ~SameSel(r, r2),
                  !.stored =
                     \E r \in res.picks :
                        /\ r.userId = (IF t # Null THEN t ELSE u)
                        /\ r.leagueId = l
                        /\ SameSel(r, StoredSel(sel))]
    /\ UNCHANGED <<draft, fx, sub, rot, now, nhl, game, perf, members, proc, scored>>

----------------------------------------------------------------------------
(* The upstream box score (fetchGameDetails, fetchGameDetailsForScoring) *)

homeTeamScore == IF game.isHome THEN nhl.det ELSE nhl.opp
awayTeamScore == IF game.isHome THEN nhl.opp ELSE nhl.det

\* boxscore.playerStats, once the game is on
BoxPlayers == IF nhl.gameState = "FUT" THEN {} ELSE {"F1", "K1"}
BoxStat(p) ==
  [goals |-> IF p = "F1" THEN nhl.det ELSE 0, assists |-> 0, shortHandedGoals |-> 0]

\* GameScoringData: goalie lines are the goalies of the box score, each with
\* goalsAgainst = the opponent's score; overtime and shootout are never detected
fetchGameDetailsForScoring ==
  [ok |-> TRUE,
   playerStats |-> BoxPlayers,
   goalieStats |-> [p \in {q \in BoxPlayers : Position(q) = "Goalie"} |->
                      [goalsAgainst |-> nhl.opp, assists |-> BoxStat(p).assists]],
   isOvertime |-> (nhl.gameState = "OFF" /\ homeTeamScore # awayTeamScore /\ FALSE),
   isShootout |-> FALSE]

----------------------------------------------------------------------------
(* GET /api/cron/update-game-status *)

newStatus ==
  CASE nhl.gameState \in {"OFF", "OFFICIAL"} -> "final"
    [] nhl.gameState = "LIVE" -> "in_progress"
    [] nhl.gameState \in {"FUT", "PRE"} -> "scheduled"
    [] OTHER -> game.status

UpdateGameStatus ==
  /\ game.status \in {"scheduled", "in_progress"}
  /\ game.hasPk
  \* (a failed fetch is logged and changes nothing)
  /\ game' = [game EXCEPT !.status = newStatus,
                          !.homeScore = OrNull(homeTeamScore),
                          !.awayScore = OrNull(awayTeamScore)]
  /\ last' = Done("refresh", "ok")
  /\ UNCHANGED <<draft, fx, sub, rot, now, nhl, picks, perf, members, proc, scored>>

----------------------------------------------------------------------------
(* POST /api/players/sync-performance *)

ZeroPerf == [goals |-> 0, assists |-> 0, shortHandedPoints |-> 0]

\* upsert of one row of PlayerPerformance
Upsert(pf, p, row) == [q \in DOMAIN pf \cup {p} |-> IF q = p THEN row ELSE pf[q]]

SyncedPerf ==
  [p \in DOMAIN perf \cup BoxPlayers |->
     IF p \notin BoxPlayers THEN perf[p]
     ELSE IF Position(p) = "Goalie"
       THEN [goals |-> 0, assists |-> BoxStat(p).assists,
             shortHandedPoints |-> IF p \in DOMAIN perf
                                   THEN perf[p].shortHandedPoints ELSE 0]
       ELSE [goals |-> BoxStat(p).goals, assists |-> BoxStat(p).assists,
             shortHandedPoints |-> BoxStat(p).shortHandedGoals]]

\* called by a signed-in user
SyncPerformance ==
  /\ game.hasPk
  \* (a failed fetch answers 500 and changes nothing)
  /\ perf' = SyncedPerf
  /\ last' = Done("sync", "ok")
  /\ UNCHANGED <<draft, fx, sub, rot, now, nhl, game, picks, members, proc, scored>>

----------------------------------------------------------------------------
(* GET /api/cron/sync-player-performance *)

\* the window of "recently final" games, in clock ticks
TwentyFourHours == 1

\* gamesToSync: the game is in progress, or final and not older than the
\* window, and has an NHL game id
InGamesToSync ==
  /\ \/ game.status = "in_progress"
     \/ game.status = "final" /\ GameDate >= now - TwentyFourHours
  /\ game.hasPk

\* the headers of the cron job's fetch of /api/players/sync-performance
InternalCallHeaders(cronSecret) ==
  {"content-type"} \cup (IF cronSecret THEN {"authorization"} ELSE {})

\* the user of the auth-token cookie, null without one
getAuthenticatedUser(headers) ==
  IF "cookie" \notin headers THEN Null ELSE "user"

\* one run: every game to sync is sent to the sync-performance endpoint; a
\* response that is not ok goes to the errors of the run, whose own answer is
\* a 200 either way
CronSyncPerformance ==
  \E cronSecret \in BOOLEAN :
    LET user == getAuthenticatedUser(InternalCallHeaders(cronSecret))
        syncResponse == IF user = Null THEN "401" ELSE "200"
    IN /\ perf' = IF InGamesToSync /\ syncResponse = "200" THEN SyncedPerf ELSE perf
       /\ last' = Done("cronsync",
                       IF ~InGamesToSync THEN "no_games"
                       ELSE IF syncResponse = "200" THEN "synced" ELSE "errors")
       /\ UNCHANGED <<draft, fx, sub, rot, now, nhl, game, picks, members, proc, scored>>

----------------------------------------------------------------------------
(* POST /api/game/[id]/mock-results *)

\* Math.floor(Math.random() * 4) + 4 and + 2: a sample of each range
MockRedWingsScores == {4}
MockOpponentScores == {2, 5}
\* random stat lines (0-3 goals, 0-2 assists): a sample
MockStatLines ==
  {ZeroPerf, [goals |-> 1, assists |-> 1, shortHandedPoints |-> 0]}

\* results are mocked for mock games (create-mock sets no nhlGamePk)
MockResults ==
  /\ game.status = "scheduled" /\ ~game.hasPk
  /\ \E redWingsScore \in MockRedWingsScores, opponentScore \in MockOpponentScores,
        lines \in [Players -> MockStatLines] :
       /\ perf' = [p \in DOMAIN perf \cup {q \in Players : lines[q] # ZeroPerf} |->
                     IF lines[p] # ZeroPerf THEN lines[p] ELSE perf[p]]
       /\ game' = [game EXCEPT
                     !.status = "final",
                     !.homeScore = IF game.isHome THEN redWingsScore ELSE opponentScore,
                     !.awayScore = IF game.isHome THEN opponentScore ELSE redWingsScore]
  /\ last' = Done("mock", "ok")
  /\ UNCHANGED <<draft, fx, sub, rot, now, nhl, picks, members, proc, scored>>

----------------------------------------------------------------------------
(* Scoring rules (lib/scoring) *)

RECURSIVE SumSeq(_)
SumSeq(q) == IF q = <<>> THEN 0 ELSE Head(q) + SumSeq(Tail(q))

GoalPoints(position, goal) ==
  LET base == IF position = "Forward"
              THEN (IF goal.isOvertime THEN 7 ELSE 2)
              ELSE (IF goal.isOvertime THEN 8 ELSE 3)
  IN IF goal.isShorthanded THEN 2 * base ELSE base

AssistPoints(assist) == IF assist.isShorthanded THEN 2 ELSE 1

calculatePlayerTotalPoints(position, goals, assists) ==
  SumSeq([k \in 1..Len(goals) |-> GoalPoints(position, goals[k])])
  + SumSeq([k \in 1..Len(assists) |-> AssistPoints(assists[k])])

calculateGoaliePoints(g) ==
  LET allowed == g.goalsAgainst - g.emptyNetGoals - g.shootoutGoals
      tier == IF allowed <= 0 THEN 5 ELSE IF allowed <= 2 THEN 3 ELSE 0
  IN tier + 5 * g.assists

----------------------------------------------------------------------------
(* POST /api/pick/calculate *)

\* the response of the inline call to /api/players/sync-performance: the call
\* carries no auth cookie, and the endpoint answers 401 without one
syncResponseOk == FALSE

\* variant: the guard is missing
hasPointsNever(rows) == FALSE

\* variant: the guard asks for every pick to have points (every for some)
hasPointsEvery(rows) == rows # {} /\ \A r \in rows : r.pointsEarned > 0

hasPoints(rows) == \E r \in rows : r.pointsEarned > 0

TeamPickPoints(redWingsScore, opponentScore) ==
  LET redWingsWon == redWingsScore # NoScore /\ opponentScore # NoScore
                     /\ redWingsScore > opponentScore
  IN IF redWingsScore # NoScore /\ redWingsWon /\ redWingsScore >= 4
     THEN 4 + (redWingsScore - 4)
     ELSE 0

\* goal i (counted from 0) of the tally
GoalEvents(pf, isOvertimeGame) ==
  [k \in 1..pf.goals |->
     [isOvertime |-> isOvertimeGame /\ (k - 1) = pf.goals - 1,
      isShorthanded |-> (k - 1) < pf.shortHandedPoints]]

AssistEvents(pf) ==
  [k \in 1..pf.assists |-> [isOvertime |-> FALSE, isShorthanded |-> FALSE]]

\* variant: the map entry keeps the current value, without the pick's points
AccumulateCurrent(ulp, u, l, pointsEarned) ==
  IF \E k \in 1..Len(ulp) : ulp[k].userId = u /\ ulp[k].leagueId = l
  THEN ulp
  ELSE Append(ulp, [userId |-> u, leagueId |-> l, points |-> 0])

\* userLeaguePoints.set(key, (userLeaguePoints.get(key) || 0) + pointsEarned);
\* the Map keeps its keys in insertion order
Accumulate(ulp, u, l, pointsEarned) ==
  IF \E k \in 1..Len(ulp) : ulp[k].userId = u /\ ulp[k].leagueId = l
  THEN [k \in 1..Len(ulp) |->
          IF ulp[k].userId = u /\ ulp[k].leagueId = l
          THEN [ulp[k] EXCEPT !.points = @ + pointsEarned]
          ELSE ulp[k]]
  ELSE Append(ulp, [userId |-> u, leagueId |-> l, points |-> 0 + pointsEarned])

\* prisma.pick.update({ where: { id }, data: { pointsEarned } }) and the
\* bookkeeping that follows it
WritePoints(w, pick, pointsEarned) ==
  [w EXCEPT
     !.picks = {IF r.id = pick.id THEN [r EXCEPT !.pointsEarned = pointsEarned] ELSE r
                : r \in w.picks},
     !.scored = @ \cup {pick.id},
     !.loc = [w.loc EXCEPT
                !.updated = @ \cup {pick.id},
                !.rewrote = @ \/ pick.id \in w.scored,
                !.ulp = Accumulate(@, pick.userId, pick.leagueId, pointsEarned),
                !.i = @ + 1]]

\* an exception reaches the handler's catch: 500
Abort(w, pickId) ==
  [w EXCEPT !.loc = [w.loc EXCEPT !.pc = "done", !.resp = "error", !.crashed = pickId]]

\* one iteration of `for (const pick of allPicks)`
PickStep(w) ==
  LET loc == w.loc
      pick == loc.snap[loc.i]
  IN
  IF loc.fault = [at |-> "pick", n |-> loc.i] THEN Abort(w, NoId)
  ELSE IF pick.pickType = "team"
    THEN WritePoints(w, pick, TeamPickPoints(loc.redWingsScore, loc.opponentScore))
  ELSE IF pick.playerId = Null \/ pick.playerId \notin Players
    THEN [w EXCEPT !.loc = [loc EXCEPT !.i = @ + 1]]
  ELSE
    LET found == pick.playerId \in DOMAIN w.perf
        synced == IF ~found /\ game.hasPk /\ syncResponseOk THEN SyncedPerf ELSE w.perf
        missing == pick.playerId \notin DOMAIN synced
        pf == IF missing THEN Upsert(synced, pick.playerId, ZeroPerf) ELSE synced
        playerPerformance == pf[pick.playerId]
        noStats == missing /\ (~loc.sd.ok \/ pick.playerId \notin loc.sd.playerStats)
        w2 == [w EXCEPT !.perf = pf,
                        !.loc = [loc EXCEPT !.synth = IF noStats THEN @ \cup {pick.id} ELSE @]]
        isOvertimeGame == loc.sd.ok /\ loc.sd.isOvertime /\ ~loc.sd.isShootout
    IN
    IF Position(pick.playerId) = "Goalie"
    THEN IF ~loc.sd.ok
           THEN Abort(w2, pick.id)       \* scoringData is null: a TypeError
         ELSE IF pick.playerId \in DOMAIN loc.sd.goalieStats
           THEN LET goalieStat == loc.sd.goalieStats[pick.playerId] IN
                WritePoints(w2, pick,
                  calculateGoaliePoints(
                    [goalsAgainst |-> goalieStat.goalsAgainst,
                     assists |-> goalieStat.assists,
                     emptyNetGoals |-> 0,
                     shootoutGoals |-> IF loc.sd.isShootout
                                       THEN goalieStat.goalsAgainst ELSE 0]))
         ELSE WritePoints(w2, pick, playerPerformance.assists * 5)
    ELSE WritePoints(w2, pick,
           calculatePlayerTotalPoints(Position(pick.playerId),
                                      GoalEvents(playerPerformance, isOvertimeGame),
                                      AssistEvents(playerPerformance)))

\* one iteration of `for (const [key, totalPoints] of userLeaguePoints)`
IncStep(w) ==
  LET loc == w.loc
      e == loc.ulp[loc.j]
      key == <<e.leagueId, e.userId>>
  IN
  IF loc.fault = [at |-> "inc", n |-> loc.j] THEN Abort(w, NoId)
  ELSE [w EXCEPT
          !.members = [k \in DOMAIN w.members |->
                         IF k = key
                         THEN [w.members[k] EXCEPT !.totalPoints = @ + e.points]
                         ELSE w.members[k]],
          !.loc = [loc EXCEPT !.j = @ + 1]]

\* the end of a loop leads on to the next loop, or to the 200 response
Advance(loc) ==
  LET l1 == IF loc.pc = "loop" /\ loc.i > Len(loc.snap)
            THEN [loc EXCEPT !.pc = "inc", !.j = 1] ELSE loc
  IN IF l1.pc = "inc" /\ l1.j > Len(l1.ulp)
     THEN [l1 EXCEPT !.pc = "done", !.resp = "ok"] ELSE l1

CalcStep(w) ==
  LET w2 == IF w.loc.pc = "loop" THEN PickStep(w) ELSE IncStep(w)
  IN [w2 EXCEPT !.loc = Advance(w2.loc)]

RECURSIVE CalcRun(_)
CalcRun(w) == IF w.loc.pc = "done" THEN w ELSE CalcRun(CalcStep(w))

\* the start of the handler: the game with its picks, the two guards, and
\* the box score
CalcLoad(op, order, fetchOk, fault) ==
  LET base == [IdleLoc EXCEPT !.op = op, !.before = Totals, !.pc = "done"] IN
  IF game.status # "final" THEN [base EXCEPT !.resp = "not_final"]
  ELSE IF hasPoints(picks) THEN [base EXCEPT !.resp = "already_calculated"]
  ELSE Advance([base EXCEPT
         !.pc = "loop", !.i = 1, !.snap = order, !.fault = fault,
         !.redWingsScore = IF game.isHome THEN game.homeScore ELSE game.awayScore,
         !.opponentScore = IF game.isHome THEN game.awayScore ELSE game.homeScore,
         !.sd = IF game.hasPk /\ fetchOk THEN fetchGameDetailsForScoring ELSE NoData])

\* game.picks comes back in an order the query does not fix
Orders(rows) ==
  {f \in [1..Cardinality(rows) -> rows] : \A a, b \in DOMAIN f : a # b => f[a] # f[b]}

\* a database call that rejects: the n-th pick's, or the n-th increment
Faults(n) ==
  {NoFault} \cup {[at |-> a, n |-> k] : a \in {"pick", "inc"}, k \in 1..n}

World(loc) ==
  [picks |-> picks, perf |-> perf, members |-> members,
   scored |-> scored, loc |-> loc]

Summary(loc) ==
  [NoLast EXCEPT !.op = loc.op, !.resp = loc.resp, !.before = loc.before,
                 !.prev = IF last.op = "settle" /\ last.resp \in {"ok", "error"}
                          THEN last.resp ELSE "none",
                 !.updated = loc.updated, !.synth = loc.synth,
                 !.crashed = loc.crashed, !.rewrote = loc.rewrote,
                 !.faulted = (loc.resp = "error" /\ loc.crashed = NoId),
                 !.snap = {loc.snap[k].id : k \in DOMAIN loc.snap}]

\* variant: the two precondition checks come after the loops, so that a
\* rejected call has already written
CalcLoadUnchecked(op, order, fetchOk, fault) ==
  Advance([IdleLoc EXCEPT
     !.op = op, !.before = Totals,
     !.pc = "loop", !.i = 1, !.snap = order, !.fault = fault,
     !.redWingsScore = IF game.isHome THEN game.homeScore ELSE game.awayScore,
     !.opponentScore = IF game.isHome THEN game.awayScore ELSE game.homeScore,
     !.sd = IF game.hasPk /\ fetchOk THEN fetchGameDetailsForScoring ELSE NoData])

CalculateChecksLast(op) ==
  /\ \A p \in Procs : proc[p].pc = "idle"
  /\ \E order \in Orders(picks), fetchOk \in BOOLEAN, fault \in Faults(Cardinality(picks)) :
       LET w == CalcRun(World(CalcLoadUnchecked(op, order, fetchOk, fault))) IN
       /\ picks' = w.picks
       /\ perf' = w.perf
       /\ members' = w.members
       /\ scored' = w.scored
       /\ last' = [Summary(w.loc) EXCEPT
                     !.resp = IF game.status # "final" THEN "not_final"
                              ELSE IF hasPoints(picks) THEN "already_calculated"
                              ELSE @]
  /\ UNCHANGED <<draft, fx, sub, rot, now, nhl, game, proc>>

\* a whole invocation, alone, with the box score fetch succeeding as in
\* fetches and the database rejecting as in faults
CalculateUnder(op, fetches, faults) ==
  /\ \A p \in Procs : proc[p].pc = "idle"
  /\ \E order \in Orders(picks), fetchOk \in fetches, fault \in faults :
       LET w == CalcRun(World(CalcLoad(op, order, fetchOk, fault))) IN
       /\ picks' = w.picks
       /\ perf' = w.perf
       /\ members' = w.members
       /\ scored' = w.scored
       /\ last' = Summary(w.loc)
  /\ UNCHANGED <<draft, fx, sub, rot, now, nhl, game, proc>>

Calculate(op) == CalculateUnder(op, BOOLEAN, Faults(Cardinality(picks)))

SettleGame == Calculate("settle")

\* gamesNeedingCalculation: final, with an NHL id, with picks that all have
\* 0 points
InGamesNeedingCalculation ==
  /\ game.status = "final" /\ game.hasPk
  /\ picks # {} /\ \A r \in picks : r.pointsEarned = 0

\* GET /api/cron/calculate-points: final games with an NHL id whose picks
\* all have 0 points are sent to the calculate endpoint
CronCalculatePoints ==
  /\ InGamesNeedingCalculation
  /\ Calculate("settle")

\* a run during which the box score is reachable and the database accepts
\* every call
CronCalculateHealthy ==
  /\ InGamesNeedingCalculation
  /\ CalculateUnder("settle", {TRUE}, {NoFault})

----------------------------------------------------------------------------
(* Invocations of the calculate handler in steps, one database call's worth
   at a time, so that two of them interleave *)

Store(w, p) ==
  /\ picks' = w.picks
  /\ perf' = w.perf
  /\ members' = w.members
  /\ scored' = w.scored
  /\ proc' = [proc EXCEPT ![p] = w.loc]

CalcBegin(p) ==
  /\ proc[p].pc = "idle"
  /\ \E order \in Orders(picks), fetchOk \in BOOLEAN :
       Store(World(CalcLoad("settle", order, fetchOk, NoFault)), p)
  /\ UNCHANGED <<draft, fx, sub, rot, now, nhl, game, last>>

CalcNext(p) ==
  /\ proc[p].pc \in {"loop", "inc"}
  /\ Store(CalcStep(World(proc[p])), p)
  /\ UNCHANGED <<draft, fx, sub, rot, now, nhl, game, last>>

CalcReturn(p) ==
  /\ proc[p].pc = "done"
  /\ proc' = [proc EXCEPT ![p] = IdleLoc]
  /\ last' = Summary(proc[p])
  /\ UNCHANGED <<draft, fx, sub, rot, now, nhl, game, picks, perf, members, scored>>

----------------------------------------------------------------------------
(* Draft order: POST /api/league/join, POST /api/league/[id]/draft-order,
   POST /api/league/[id]/rotate-draft *)

\* the positions before a request are kept for a rotation that was made
DraftDone(op, resp, position) ==
  [position |-> position, op |-> op, resp |-> resp,
   before |-> IF op = "rotate" /\ resp = "ok" THEN draft.position ELSE <<>>]

\* a user joins the league: a membership without a draft position
JoinLeague ==
  /\ \E u \in DraftUsers :
       draft' = IF u \in DOMAIN draft.position
                THEN DraftDone("join", "already_member", draft.position)
                ELSE DraftDone("join", "ok",
                       [m \in DOMAIN draft.position \cup {u} |->
                          IF m = u THEN NoPosition ELSE draft.position[m]])
  /\ UNCHANGED <<core, fx, sub, rot>>

\* request bodies of the draft-order route: the arrays of user ids that have
\* one entry per member, and the empty array
UserIdLists(n) == [1..n -> DraftUsers] \cup {<<>>}

\* the positions the updates leave: userIds[index] gets index + 1; the updates
\* run concurrently (Promise.all), so a user named twice ends with either
AssignedPositions(position, userIds) ==
  LET named == {userIds[i] : i \in DOMAIN userIds} IN
  {[m \in DOMAIN position |-> IF m \in named THEN f[m] ELSE position[m]] :
     f \in {g \in [named -> DOMAIN userIds] : \A m \in named : userIds[g[m]] = m}}

SetDraftOrder ==
  /\ \E u \in DraftUsers :
       LET position == draft.position IN
       IF u \notin DOMAIN position \/ u # DraftAdmin
         THEN draft' = DraftDone("set", "admin_only", position)
       ELSE \E userIds \in UserIdLists(Cardinality(DOMAIN position)) :
         IF \E i \in DOMAIN userIds : userIds[i] \notin DOMAIN position
           THEN draft' = DraftDone("set", "invalid_ids", position)
         ELSE IF Len(userIds) # Cardinality(DOMAIN position)
           THEN draft' = DraftDone("set", "incomplete", position)
         ELSE \E new \in AssignedPositions(position, userIds) :
                draft' = DraftDone("set", "ok", new)
  /\ UNCHANGED <<core, fx, sub, rot>>

\* variant: the last position is the number of all members of the league
rotatedAmongAll(position) ==
  LET totalMembers == Cardinality(DOMAIN position) IN
  [m \in DOMAIN position |->
     IF position[m] = NoPosition THEN NoPosition
     ELSE IF position[m] = 1 THEN totalMembers
     ELSE position[m] - 1]

\* the first pick goes to the last position, everyone else moves up
rotated(position) ==
  LET membershipsWithPositions == {m \in DOMAIN position : position[m] # NoPosition}
      totalMembers == Cardinality(membershipsWithPositions)
  IN [m \in DOMAIN position |->
        IF position[m] = NoPosition THEN NoPosition
        ELSE IF position[m] = 1 THEN totalMembers
        ELSE position[m] - 1]

RotateDraftOrder ==
  /\ \E u \in DraftUsers :
       LET position == draft.position IN
       IF u \notin DOMAIN position
         THEN draft' = DraftDone("rotate", "not_member", position)
       ELSE IF \A m \in DOMAIN position : position[m] = NoPosition
         THEN draft' = DraftDone("rotate", "not_set", position)
       ELSE draft' = DraftDone("rotate", "ok", rotated(position))
  /\ UNCHANGED <<core, fx, sub, rot>>

----------------------------------------------------------------------------
(* Invocations of the rotate-draft handler in steps, so that two of them
   interleave: the read of the memberships, then each member's update on its
   own *)

\* a league of four whose draft order has been set: any order
InitRotate ==
  /\ now = 0
  /\ nhl = [gameState |-> "FUT", det |-> 0, opp |-> 0]
  /\ game = [status |-> "scheduled", homeScore |-> NoScore, awayScore |-> NoScore,
             isHome |-> TRUE, hasPk |-> TRUE]
  /\ picks = {}
  /\ perf = <<>>
  /\ members = [k \in MemberKeys |-> [role |-> Roles[k], totalPoints |-> 0]]
  /\ proc = [p \in Procs |-> IdleLoc]
  /\ scored = {}
  /\ last = NoLast
  /\ fx = NoEval
  /\ sub = [p \in Procs |-> IdleSub]
  /\ rot = [p \in Procs |-> IdleRot]
  /\ \E position \in [DraftUsers -> 1..Cardinality(DraftUsers)] :
       /\ \A m1, m2 \in DraftUsers : m1 # m2 => position[m1] # position[m2]
       /\ draft = [position |-> position, op |-> "set", resp |-> "ok",
                   before |-> position]

\* prisma.league.findUnique with the memberships, and the list of updates
RotateRead(p) ==
  /\ rot[p].pc = "idle"
  /\ LET position == draft.position
         membershipsWithPositions == {m \in DOMAIN position : position[m] # NoPosition}
         new == rotated(position)
     IN /\ membershipsWithPositions # {}
        /\ rot' = [rot EXCEPT ![p] =
                     [pc |-> "write",
                      updates |-> [m \in membershipsWithPositions |-> new[m]]]]
  /\ UNCHANGED <<core, draft, fx, sub>>

\* one of the updates of Promise.all(updates) reaches the database
RotateUpdate(p) ==
  /\ rot[p].pc = "write"
  /\ \E m \in DOMAIN rot[p].updates :
       LET rest == [k \in DOMAIN rot[p].updates \ {m} |-> rot[p].updates[k]] IN
       /\ draft' = [draft EXCEPT !.position[m] = rot[p].updates[m], !.op = "rotate"]
       /\ rot' = [rot EXCEPT ![p] =
                    [pc |-> IF DOMAIN rest = {} THEN "done" ELSE "write",
                     updates |-> rest]]
  /\ UNCHANGED <<core, fx, sub>>

----------------------------------------------------------------------------
(* Scoring rules, evaluated on their own *)

\* a team pick of a game whose final score the status refresh recorded: the
\* refresh stores `score || null`, the calculation reads the stored scores
refreshedTeamPickPoints(isHome, teamGoals, opponentGoals) ==
  LET homeScore == OrNull(IF isHome THEN teamGoals ELSE opponentGoals)
      awayScore == OrNull(IF isHome THEN opponentGoals ELSE teamGoals)
      redWingsScore == IF isHome THEN homeScore ELSE awayScore
      opponentScore == IF isHome THEN awayScore ELSE homeScore
  IN TeamPickPoints(redWingsScore, opponentScore)

\* a final score has a winner
EvalTeamPick ==
  /\ \E isHome \in BOOLEAN, teamGoals \in 0..MaxGoals, opponentGoals \in 0..MaxGoals :
       /\ teamGoals # opponentGoals
       /\ fx' = [fn |-> "team", isHome |-> isHome, teamGoals |-> teamGoals,
                 opponentGoals |-> opponentGoals,
                 points |-> refreshedTeamPickPoints(isHome, teamGoals, opponentGoals)]
  /\ UNCHANGED <<core, draft, sub, rot>>

\* lib/gameSimulator: the client-side scoring of a simulated game.
\* GamePlayerStats: position, goals (isShorthanded, isOTGoal), assists
\* (isShorthanded); Game: opponentGoals, emptyNetGoals
GoalFlags == [isShorthanded : BOOLEAN, isOTGoal : BOOLEAN]
AssistFlags == [isShorthanded : BOOLEAN]
EventLists(flags) == UNION {[1..n -> flags] : n \in 0..MaxEvents}

\* the points of one goal
goalPoints(goal, base, otGoal) ==
  LET p1 == IF goal.isOTGoal THEN otGoal ELSE base
  IN IF goal.isShorthanded THEN p1 * 2 ELSE p1

\* the points of one assist
assistPoints(assist) == IF assist.isShorthanded THEN 1 * 2 ELSE 1

\* variant: an overtime goal adds its 7 points to the base
calculateForwardScoreOtAdded(playerStats) ==
  SumSeq([k \in DOMAIN playerStats.goals |->
            LET goal == playerStats.goals[k]
                p1 == IF goal.isOTGoal THEN 2 + 7 ELSE 2
            IN IF goal.isShorthanded THEN p1 * 2 ELSE p1])
  + SumSeq([k \in DOMAIN playerStats.assists |-> assistPoints(playerStats.assists[k])])

calculateForwardScore(playerStats) ==
  SumSeq([k \in DOMAIN playerStats.goals |-> goalPoints(playerStats.goals[k], 2, 7)])
  + SumSeq([k \in DOMAIN playerStats.assists |-> assistPoints(playerStats.assists[k])])

calculateDefensemanScore(playerStats) ==
  SumSeq([k \in DOMAIN playerStats.goals |-> goalPoints(playerStats.goals[k], 3, 8)])
  + SumSeq([k \in DOMAIN playerStats.assists |-> assistPoints(playerStats.assists[k])])

calculateGoalieScore(playerStats, gameResult) ==
  LET goalsAllowed == gameResult.opponentGoals - gameResult.emptyNetGoals
      tier == IF goalsAllowed = 0 THEN 5 ELSE IF goalsAllowed <= 2 THEN 3 ELSE 0
  IN tier + Len(playerStats.assists) * 5

calculatePlayerScore(playerStats, gameResult) ==
  IF playerStats.position = "G" THEN calculateGoalieScore(playerStats, gameResult)
  ELSE IF playerStats.position \in {"C", "LW", "RW"} THEN calculateForwardScore(playerStats)
  ELSE IF playerStats.position = "D" THEN calculateDefensemanScore(playerStats)
  ELSE 0

\* a skater's score in the client simulator
EvalSkater ==
  /\ \E position \in {"C", "LW", "RW", "D"},
        goals \in EventLists(GoalFlags), assists \in EventLists(AssistFlags) :
       fx' = [fn |-> "skater", position |-> position, goals |-> goals,
              assists |-> assists,
              points |-> calculatePlayerScore(
                           [position |-> position, goals |-> goals, assists |-> assists],
                           [opponentGoals |-> 0, emptyNetGoals |-> 0])]
  /\ UNCHANGED <<core, draft, sub, rot>>

\* the goalie branches of the server: the calculation when the goalie is in
\* the box score's goalie lines, its fallback when he is not, and the
\* simulate route
settledGoaliePoints(goalieStat, isShootout) ==
  calculateGoaliePoints(
    [goalsAgainst |-> goalieStat.goalsAgainst,
     assists |-> goalieStat.assists,
     emptyNetGoals |-> 0,
     shootoutGoals |-> IF isShootout THEN goalieStat.goalsAgainst ELSE 0])

fallbackGoaliePoints(playerPerformance) == playerPerformance.assists * 5

simulatedGoaliePoints(playerPerformance) == playerPerformance.assists * 5

\* a goalie pick scored on each path; only the client simulator knows of
\* empty-net goals (0 to 2 of them)
EvalGoalie ==
  /\ \E path \in {"settle", "fallback", "simulate", "client"},
        opponentGoals \in 0..MaxGoals, emptyNetGoals \in 0..2, assists \in 0..MaxEvents :
       /\ path # "client" => emptyNetGoals = 0
       /\ fx' = [fn |-> "goalie", path |-> path, opponentGoals |-> opponentGoals,
                 emptyNetGoals |-> emptyNetGoals, assists |-> assists,
                 points |->
                   CASE path = "settle" ->
                          settledGoaliePoints(
                            [goalsAgainst |-> opponentGoals, assists |-> assists], FALSE)
                     [] path = "fallback" ->
                          fallbackGoaliePoints([ZeroPerf EXCEPT !.assists = assists])
                     [] path = "simulate" ->
                          simulatedGoaliePoints([ZeroPerf EXCEPT !.assists = assists])
                     [] path = "client" ->
                          calculatePlayerScore(
                            [position |-> "G", goals |-> <<>>,
                             assists |-> [k \in 1..assists |-> [isShorthanded |-> FALSE]]],
                            [opponentGoals |-> opponentGoals,
                             emptyNetGoals |-> emptyNetGoals])]
  /\ UNCHANGED <<core, draft, sub, rot>>

\* simulateGameStats draws each side's goals from 1..6
SimGoals == 6

\* the client simulator: total goals if more than 3, otherwise 0
calculateTeamScore(teamGoals) == IF teamGoals <= 3 THEN 0 ELSE teamGoals

\* simulateGame and calculateUserScores for a team pick: the pick gets
\* gameResult.teamPoints
EvalClientTeamPick ==
  /\ \E teamGoals \in 1..SimGoals, opponentGoals \in 1..SimGoals :
       LET teamPoints == calculateTeamScore(teamGoals)
       IN fx' = [fn |-> "clientTeam", teamGoals |-> teamGoals,
                 opponentGoals |-> opponentGoals, points |-> teamPoints]
  /\ UNCHANGED <<core, draft, sub, rot>>

\* what fetchGameDetailsForScoring makes of a box score: overtime is never
\* detected
detectedOvertime(gameState, homeScore, awayScore) ==
  gameState = "OFF" /\ homeScore # awayScore /\ FALSE

\* a skater pick settled for a final game that really ended in regulation,
\* in overtime or in a shootout: the goal events the settlement builds from
\* the player's tally, and the points
EvalSettledSkater ==
  /\ \E position \in {"Forward", "Defense"}, goals \in 0..MaxEvents,
        wentToOvertime \in BOOLEAN, wentToShootout \in BOOLEAN,
        homeScore \in 0..MaxGoals, awayScore \in 0..MaxGoals :
       /\ homeScore # awayScore
       /\ wentToShootout => wentToOvertime
       /\ LET isShootout == FALSE
              isOvertimeGame ==
                detectedOvertime("OFF", homeScore, awayScore) /\ ~isShootout
              playerPerformance == [ZeroPerf EXCEPT !.goals = goals]
              events == GoalEvents(playerPerformance, isOvertimeGame)
          IN fx' = [fn |-> "settledSkater", position |-> position, goals |-> goals,
                    wentToOvertime |-> wentToOvertime,
                    wentToShootout |-> wentToShootout,
                    homeScore |-> homeScore, awayScore |-> awayScore,
                    events |-> events,
                    points |-> calculatePlayerTotalPoints(
                                 position, events, AssistEvents(playerPerformance))]
  /\ UNCHANGED <<core, draft, sub, rot>>

----------------------------------------------------------------------------
(* The client's localStorage (contexts/GameContext.tsx) *)

\* JavaScript values: a number, a Map and a plain object, the last two with
\* their entries as a function of the keys
Num(n) == [t |-> "number", n |-> n]
Map(e) == [t |-> "Map", e |-> e]
Obj(e) == [t |-> "Object", e |-> e]

\* Object.fromEntries(map): the values are taken as they are
ObjectFromEntries(map) == Obj(map.e)

\* JSON.stringify: a Map has no enumerable properties of its own and is
\* written as {}
RECURSIVE JSONstringify(_)
JSONstringify(value) ==
  CASE value.t = "number" -> [t |-> "jnumber", n |-> value.n]
    [] value.t = "Map" -> [t |-> "jobject", e |-> [k \in {} |-> 0]]
    [] value.t = "Object" ->
         [t |-> "jobject", e |-> [k \in DOMAIN value.e |-> JSONstringify(value.e[k])]]

RECURSIVE JSONparse(_)
JSONparse(item) ==
  CASE item.t = "jnumber" -> Num(item.n)
    [] item.t = "jobject" -> Obj([k \in DOMAIN item.e |-> JSONparse(item.e[k])])

\* the item saveToStorage sets: the branch for any Map comes first, so the
\* branch for the nested Map of gameUserScores is never taken
saveToStorage(key, value) ==
  IF value.t = "Map" THEN JSONstringify(ObjectFromEntries(value))
  ELSE IF key = "gameUserScores" /\ value.t = "Map"
    THEN JSONstringify(Obj([gameId \in DOMAIN value.e |->
                              ObjectFromEntries(value.e[gameId])]))
  ELSE JSONstringify(value)

loadFromStorage(key, item) ==
  IF key = "userScores" THEN Map(JSONparse(item).e)
  ELSE IF key = "gameUserScores"
    THEN LET data == JSONparse(item)
         IN Map([gameId \in DOMAIN data.e |-> Map(data.e[gameId].e)])
  ELSE JSONparse(item)

\* the games and users of the client, and the points of a game
StoredGames == {"g1", "g2"}
StoredUsers == {"1", "2"}

\* the maps from some of the keys to a value
MapsOver(keys, values) ==
  {Map(e) : e \in UNION {[d -> values] : d \in SUBSET keys}}

RECURSIVE SumOver(_, _)
SumOver(keys, f) ==
  IF keys = {} THEN 0
  ELSE LET k == CHOOSE x \in keys : TRUE IN f[k] + SumOver(keys \ {k}, f)

\* the sum of a user's points over the games of a gameUserScores map
TotalIn(gameUserScores, userId) ==
  SumOver(DOMAIN gameUserScores.e,
          [gameId \in DOMAIN gameUserScores.e |->
             IF userId \in DOMAIN gameUserScores.e[gameId].e
             THEN gameUserScores.e[gameId].e[userId].n ELSE 0])

\* simulateCurrentGame adds each game's scores to the cumulative userScores
userScoresOf(gameUserScores) ==
  Map([userId \in {u \in StoredUsers :
                     \E g \in DOMAIN gameUserScores.e : u \in DOMAIN gameUserScores.e[g].e}
         |-> Num(TotalIn(gameUserScores, userId))])

\* the state is saved, the page reloads, and the state is loaded
EvalStorage ==
  /\ \E gameUserScores \in
          MapsOver(StoredGames, MapsOver(StoredUsers, {Num(n) : n \in 0..MaxPoints})) :
       LET userScores == userScoresOf(gameUserScores) IN
       fx' = [fn |-> "storage",
              gameUserScores |-> gameUserScores,
              userScores |-> userScores,
              loadedGameUserScores |->
                loadFromStorage("gameUserScores",
                                saveToStorage("gameUserScores", gameUserScores)),
              loadedUserScores |->
                loadFromStorage("userScores", saveToStorage("userScores", userScores))]
  /\ UNCHANGED <<core, draft, sub, rot>>

----------------------------------------------------------------------------
(* Invocations of the create-pick handler in steps, so that two of them
   interleave: the checks with the lookup of the existing pick, then the
   update or the create with the locking that follows it *)

\* the checks and prisma.pick.findUnique
SubmitLookup(p) ==
  /\ sub[p].pc = "idle"
  /\ \E l \in Leagues, u \in Users, sel \in Selections :
     \E t \in (Users \ {u}) \cup {Null} :
       LET auth == Authorize(l, u, t)
           existing == PickOf(IF t # Null THEN t ELSE u, l)
           loc == [IdleSub EXCEPT !.l = l, !.u = u, !.t = t, !.sel = sel]
       IN sub' = [sub EXCEPT ![p] =
                    IF auth # "pass" THEN [loc EXCEPT !.pc = "done", !.resp = auth]
                    ELSE [loc EXCEPT !.pc = "write",
                            !.existingPick = IF existing = {} THEN NoId
                                             ELSE (CHOOSE r \in existing : TRUE).id]]
  /\ UNCHANGED <<core, draft, fx, rot>>

\* the response and the Pick table after the write of an invocation whose
\* lookup found the pick with id existingPick, or none
WriteResult(l, u, t, sel, existingPick) ==
  LET pickUserId == IF t # Null THEN t ELSE u
      st == StoredSel(sel)
  IN IF existingPick # NoId
       THEN IF ~PlayerFkOk(st.playerId)
              THEN [resp |-> "invalid_reference", picks |-> picks]
              ELSE [resp |-> "updated",
                    picks |-> LockAll(UpdatePick(picks,
                                CHOOSE r \in picks : r.id = existingPick, st), l)]
     ELSE IF st.pickType # "team" /\ st.playerId \notin Players
       THEN [resp |-> "player_not_found", picks |-> picks]
     ELSE IF ~UniqueOk(picks, pickUserId, l)
       THEN [resp |-> "constraint", picks |-> picks]
     ELSE [resp |-> "created",
           picks |-> LockAll(CreatePick(picks, pickUserId, l, st), l)]

SubmitWrite(p) ==
  /\ sub[p].pc = "write"
  /\ LET loc == sub[p]
         res == WriteResult(loc.l, loc.u, loc.t, loc.sel, loc.existingPick)
     IN /\ picks' = res.picks
        /\ sub' = [sub EXCEPT ![p] = [loc EXCEPT !.pc = "done", !.resp = res.resp,
                                                 !.p2002 = (res.resp = "constraint")]]
  /\ UNCHANGED <<draft, fx, rot, now, nhl, game, perf, members, proc, scored, last>>

SubmitReturn(p) ==
  /\ sub[p].pc = "done"
  /\ last' = Done("submit", sub[p].resp)
  /\ sub' = [sub EXCEPT ![p] = IdleSub]
  /\ UNCHANGED <<draft, fx, rot, now, nhl, game, picks, perf, members, proc, scored>>

----------------------------------------------------------------------------
(* Specifications *)

\* every request is handled alone
Next ==
  \/ Tick
  \/ NhlStart
  \/ NhlGoal
  \/ NhlEnd
  \/ SubmitPick
  \/ UpdateGameStatus
  \/ SyncPerformance
  \/ MockResults
  \/ SettleGame
  \/ CronCalculatePoints

Spec == Init /\ [][Next]_vars

\* the rows of Pick that accepted requests of the members in S leave: one row
\* per member, locked when every member has one
PickRows(S, sel) ==
  {[id |-> <<k[2], k[1], 0>>, userId |-> k[2], leagueId |-> k[1],
    playerId |-> sel[k].playerId, playerName |-> sel[k].playerName,
    pickType |-> sel[k].pickType, pointsEarned |-> 0, locked |-> (S = MemberKeys)]
   : k \in S}

\* a final game with its picks in place and no calculation made yet: the
\* real game after its last status refresh, with or without a performance
\* sync, or a mock game after mock-results
InitConc ==
  /\ now = MaxNow
  /\ \/ \E d \in 0..MaxScore, o \in 0..MaxScore, synced \in BOOLEAN :
          /\ d # o
          /\ nhl = [gameState |-> "OFF", det |-> d, opp |-> o]
          /\ game = [status |-> "final", homeScore |-> OrNull(d),
                     awayScore |-> OrNull(o), isHome |-> TRUE, hasPk |-> TRUE]
          /\ perf = IF synced
                    THEN [p \in Players |->
                            [goals |-> IF p = "F1" THEN d ELSE 0, assists |-> 0,
                             shortHandedPoints |-> 0]]
                    ELSE <<>>
     \/ \E redWingsScore \in MockRedWingsScores, opponentScore \in MockOpponentScores,
           lines \in [Players -> MockStatLines] :
          /\ nhl = [gameState |-> "FUT", det |-> 0, opp |-> 0]
          /\ game = [status |-> "final", homeScore |-> redWingsScore,
                     awayScore |-> opponentScore, isHome |-> TRUE, hasPk |-> FALSE]
          /\ perf = [p \in {q \in Players : lines[q] # ZeroPerf} |-> lines[p]]
  /\ \E S \in SUBSET MemberKeys :
       \E sel \in [S -> {StoredSel(s) : s \in {x \in Selections : PlayerFkOk(x.playerId)}}] :
         picks = PickRows(S, sel)
  /\ members = [k \in MemberKeys |-> [role |-> Roles[k], totalPoints |-> 0]]
  /\ proc = [p \in Procs |-> IdleLoc]
  /\ scored = {}
  /\ last = NoLast
  /\ draft = DraftInit
  /\ fx = NoEval
  /\ sub = [p \in Procs |-> IdleSub]
  /\ rot = [p \in Procs |-> IdleRot]

\* two invocations of the calculate handler run concurrently on a final game
NextConc ==
  \/ \E p \in Procs : CalcBegin(p)
  \/ \E p \in Procs : CalcNext(p)
  \/ \E p \in Procs : CalcReturn(p)

SpecConc == InitConc /\ [][NextConc]_vars

\* the draft order of a league
NextDraft ==
  \/ JoinLeague
  \/ SetDraftOrder
  \/ RotateDraftOrder

SpecDraft == Init /\ [][NextDraft]_vars

\* picks, the game, and the status and calculate-points cron jobs
NextCron ==
  \/ Tick
  \/ NhlStart
  \/ NhlGoal
  \/ NhlEnd
  \/ SubmitPick
  \/ UpdateGameStatus
  \/ CronCalculatePoints

\* a manual settlement that finds the game final and no pick with points,
\* during which the box score is reachable and the database accepts every call
SettleGameHealthy ==
  /\ game.status = "final" /\ ~hasPoints(picks)
  /\ CalculateUnder("settle", {TRUE}, {NoFault})

\* such a settlement can happen whenever no invocation is in flight
SettleGameEnabled ==
  /\ game.status = "final" /\ ~hasPoints(picks)
  /\ \A p \in Procs : proc[p].pc = "idle"

\* a healthy run of the calculate-points job can happen whenever a game needs
\* calculation and no invocation is in flight
CronCalculateEnabled ==
  InGamesNeedingCalculation /\ \A p \in Procs : proc[p].pc = "idle"

\* the status job runs every 5 minutes and the calculate-points job every 15:
\* neither is put off for ever. The second conjunct of fairness is
\* WF_vars(CronCalculateHealthy) with its enabling condition written out.
SpecCron ==
  /\ Init /\ [][NextCron]_vars
  /\ WF_vars(UpdateGameStatus)
  /\ ([]<>~CronCalculateEnabled \/ []<><<CronCalculateHealthy>>_vars)

\* the client saves and reloads its scores
NextStorage == EvalStorage

SpecStorage == Init /\ [][NextStorage]_vars

\* the cron jobs, and settlements asked for by hand
NextRecover ==
  \/ NextCron
  \/ SettleGame

\* the cron jobs are never put off for ever, and neither are retries by
\* hand. The last two conjuncts are WF_vars(CronCalculateHealthy) and
\* WF_vars(SettleGameHealthy) with their enabling conditions written out.
SpecRecover ==
  /\ Init /\ [][NextRecover]_vars
  /\ WF_vars(UpdateGameStatus)
  /\ ([]<>~CronCalculateEnabled \/ []<><<CronCalculateHealthy>>_vars)
  /\ ([]<>~SettleGameEnabled \/ []<><<SettleGameHealthy>>_vars)

\* two rotations of the same league run concurrently
NextRotate ==
  \/ \E p \in Procs : RotateRead(p)
  \/ \E p \in Procs : RotateUpdate(p)

SpecRotate == InitRotate /\ [][NextRotate]_vars

\* status-refresh runs against an upstream that reports anything
NextRefresh ==
  \/ Tick
  \/ NhlReport
  \/ UpdateGameStatus

SpecRefresh == Init /\ [][NextRefresh]_vars

\* the game, the status cron, and the two ways performances are synced
NextSync ==
  \/ Tick
  \/ NhlStart
  \/ NhlGoal
  \/ NhlEnd
  \/ UpdateGameStatus
  \/ SyncPerformance
  \/ CronSyncPerformance

SpecSync == Init /\ [][NextSync]_vars

\* two invocations of the create-pick handler run concurrently
NextSubmit ==
  \/ \E p \in Procs : SubmitLookup(p)
  \/ \E p \in Procs : SubmitWrite(p)
  \/ \E p \in Procs : SubmitReturn(p)

SpecSubmit == Init /\ [][NextSubmit]_vars

\* the scoring rules
NextScoring ==
  \/ EvalTeamPick
  \/ EvalSkater
  \/ EvalGoalie
  \/ EvalSettledSkater
  \/ EvalClientTeamPick

SpecScoring == Init /\ [][NextScoring]_vars

----------------------------------------------------------------------------
(* Properties *)

RECURSIVE SumPointsEarned(_)
SumPointsEarned(rows) ==
  IF rows = {} THEN 0
  ELSE LET r == CHOOSE x \in rows : TRUE
       IN r.pointsEarned + SumPointsEarned(rows \ {r})

\* the sum of pointsEarned over the picks of membership k = (league, user)
PointsOf(k) == SumPointsEarned(PickOf(k[2], k[1]))

C2_NoDoubleApplication ==
  \A k \in MemberKeys : Totals[k] <= PointsOf(k)

\* C3 (additivity): after a calculation that answered 200, each membership's
\* totalPoints has grown by exactly the sum of pointsEarned over its picks.
C3_Additive ==
  (last.op = "settle" /\ last.resp = "ok") =>
     \A k \in MemberKeys : Totals[k] - last.before[k] = PointsOf(k)

\* a successful calculation that credited every membership
C3_Witness ==
  /\ last.op = "settle" /\ last.resp = "ok"
  /\ \A k \in MemberKeys : Totals[k] - last.before[k] > 0

\* C4 (at-most-once scoring): a calculation (manual or cron) that directly
\* follows a successful one writes the points of no pick a second time.
C4_ScoredOnce ==
  (last.op = "settle" /\ last.prev = "ok") => ~last.rewrote

\* C5 (lock boundary): a pick request of a non-admin member that comes at or
\* after the scheduled start is rejected, whatever the stored status.
C5_LockAtStart ==
  (last.op = "submit" /\ last.role = "member" /\ last.late) =>
     last.resp \notin {"created", "updated"}

\* C6 (locked picks are immutable to non-admins): no request of a non-admin
\* member changes the selection of a locked pick.
C6_LockedImmutable ==
  ~(last.op = "submit" /\ last.role = "member" /\ last.changedLocked)

\* C7 (uniqueness of picks): there is at most one pick per (user, league) for
\* the game, and after an accepted request the target's row holds the
\* requested selection.
C7_OnePickPerUser ==
  /\ \A r1, r2 \in picks :
       (r1.userId = r2.userId /\ r1.leagueId = r2.leagueId) => r1 = r2
  /\ (last.op = "submit" /\ last.resp \in {"created", "updated"}) => last.stored

\* an accepted request for a target that already had a pick
C7_Witness ==
  /\ last.op = "submit" /\ last.resp = "updated" /\ last.stored
  /\ Cardinality(picks) = Cardinality(MemberKeys)

\* C8 (safe retry after failure): after any calculation, a retry after a
\* failed one included, no membership is credited more than the sum of
\* pointsEarned over its picks.
C8_SafeRetry ==
  (last.op = "settle") => \A k \in MemberKeys : Totals[k] <= PointsOf(k)

\* a retry directly after a calculation that failed between two increments
C8_Witness ==
  /\ last.op = "settle" /\ last.prev = "error"
  /\ \E k \in MemberKeys : Totals[k] > 0
  /\ \E k \in MemberKeys : Totals[k] < PointsOf(k)

\* C9 (per-pick failure is not fatal): when the scoring of one pick throws,
\* the calculation still answers 200 and has written every other pick.
C9_PickFailureSkipped ==
  (last.op = "settle" /\ last.crashed # NoId) =>
     /\ last.resp = "ok"
     /\ last.updated = last.snap \ {last.crashed}

\* C10 (zero-performance synthesis): when a picked player has no performance
\* row and no upstream statistics, a calculation in which no database call
\* rejects answers 200, and the pick has 0 points and a zero record.
C10_ZeroSynthesis ==
  (last.op = "settle" /\ ~last.faulted /\ last.synth # {}) =>
     /\ last.resp = "ok"
     /\ \A r \in picks : r.id \in last.synth =>
          /\ r.pointsEarned = 0
          /\ r.playerId \in DOMAIN perf
          /\ perf[r.playerId] = ZeroPerf

\* the numbers 1..n, each held by one of the n members that have a position
HoldOneToN(position) ==
  LET positioned == {m \in DOMAIN position : position[m] # NoPosition} IN
  /\ positioned # {}
  /\ \A k \in 1..Cardinality(positioned) : \E m \in positioned : position[m] = k

\* C11 (draft rotation): when the positioned members hold exactly 1..n, a
\* rotation gives n to the member that held 1 and k-1 to the member that held
\* k > 1, and leaves members without a position without one.
C11_Rotation ==
  (draft.op = "rotate" /\ draft.resp = "ok" /\ HoldOneToN(draft.before)) =>
     LET n == Cardinality({m \in DOMAIN draft.before : draft.before[m] # NoPosition})
     IN \A m \in DOMAIN draft.before :
          /\ draft.before[m] = NoPosition => draft.position[m] = NoPosition
          /\ draft.before[m] = 1 => draft.position[m] = n
          /\ draft.before[m] > 1 => draft.position[m] = draft.before[m] - 1

\* positions [1,2,3,4] have become [4,1,2,3]
C11_Witness ==
  /\ draft.op = "rotate" /\ draft.resp = "ok"
  /\ draft.before = [u1 |-> 1, u2 |-> 2, u3 |-> 3, u4 |-> 4]
  /\ draft.position = [u1 |-> 4, u2 |-> 1, u3 |-> 2, u4 |-> 3]

\* C12 (team-pick formula through the pipeline): for every final score the
\* status refresh records, a team pick earns teamGoals when teamGoals >
\* opponentGoals and teamGoals >= 4, and 0 otherwise.
C12_TeamPickFormula ==
  fx.fn = "team" =>
     fx.points = IF fx.teamGoals > fx.opponentGoals /\ fx.teamGoals >= 4
                 THEN fx.teamGoals ELSE 0

\* C13 (skater formula): a forward's or defenseman's score is, over the goals,
\* the base (2 or 3), replaced by the overtime value (7 or 8) for an overtime
\* goal and doubled for a shorthanded one, plus, over the assists, 1, doubled
\* for a shorthanded one; overtime does not touch assists.
C13_SkaterFormula ==
  fx.fn = "skater" =>
     LET base == IF fx.position = "D" THEN 3 ELSE 2
         otBase == IF fx.position = "D" THEN 8 ELSE 7
         g(ot, sh) == Cardinality({k \in DOMAIN fx.goals :
                        fx.goals[k].isOTGoal = ot /\ fx.goals[k].isShorthanded = sh})
         a(sh) == Cardinality({k \in DOMAIN fx.assists : fx.assists[k].isShorthanded = sh})
     IN fx.points = base * g(FALSE, FALSE) + 2 * base * g(FALSE, TRUE)
                    + otBase * g(TRUE, FALSE) + 2 * otBase * g(TRUE, TRUE)
                    + a(FALSE) + 2 * a(TRUE)

\* a forward with a shorthanded overtime goal, a regulation goal and a
\* shorthanded assist: 14 + 2 + 2
C13_Witness ==
  /\ fx.fn = "skater" /\ fx.position = "C"
  /\ fx.goals = <<[isShorthanded |-> TRUE, isOTGoal |-> TRUE],
                  [isShorthanded |-> FALSE, isOTGoal |-> FALSE]>>
  /\ fx.assists = <<[isShorthanded |-> TRUE]>>
  /\ fx.points = 18

\* C14 (goalie formula): on every path a goalie pick earns tier + 5 * assists,
\* where tier is 5 for 0 goals allowed net of empty-net goals, 3 for 1 or 2,
\* and 0 for 3 or more.
C14_GoalieFormula ==
  (fx.fn = "goalie" /\ fx.opponentGoals >= fx.emptyNetGoals) =>
     LET allowed == fx.opponentGoals - fx.emptyNetGoals
         tier == IF allowed = 0 THEN 5 ELSE IF allowed <= 2 THEN 3 ELSE 0
     IN fx.points = tier + 5 * fx.assists

\* C15 (settlement preconditions fail fast): a calculation that answers that
\* the game is not final, or that points are already calculated, changes no
\* pick, no performance record and no totalPoints.
C15_PreconditionsFailFast ==
  [][(last'.op = "settle" /\ last'.resp \in {"not_final", "already_calculated"}) =>
       (picks' = picks /\ perf' = perf /\ members' = members)]_vars

\* a call is rejected for a game that has points, while a pick of the game
\* still has none
C15_Witness ==
  /\ last.op = "settle" /\ last.resp = "already_calculated"
  /\ \E k \in MemberKeys : Totals[k] > 0
  /\ \E r \in picks : r.pointsEarned = 0

\* C16 (authorization of pick targets): in every state, a pick request whose
\* requester is no member of the league, or is a non-admin member naming
\* another user, or whose target is no member of the league, is rejected and
\* leaves the Pick table as it is.
C16_TargetsAuthorized ==
  \A l \in Leagues, u \in Users, t \in Users \cup {Null}, sel \in Selections :
     (\/ ~IsMember(l, u)
      \/ (t # Null /\ t # u /\ Roles[l, u] # "admin")
      \/ (t # Null /\ ~IsMember(l, t)))
     => LET res == SubmitResult(l, u, t, sel) IN
        /\ res.resp \in {"not_member", "admin_only", "target_not_member"}
        /\ res.picks = picks

\* an admin's request for a user outside the league has been rejected, with
\* picks in the table
C16_Witness ==
  /\ last.op = "submit" /\ last.resp = "target_not_member" /\ last.role = "admin"
  /\ picks # {}

\* C17: an invocation of the create-pick handler whose create hit the
\* uniqueness constraint (the other invocation's create came first) answers
\* on a success path, and the existing pick holds its selection
C17_ConstraintBecomesSuccess ==
  \A p \in Procs :
    (sub[p].pc = "done" /\ sub[p].p2002) =>
      /\ sub[p].resp = "updated"
      /\ \E r \in PickOf(IF sub[p].t # Null THEN sub[p].t ELSE sub[p].u, sub[p].l) :
           SameSel(r, StoredSel(sub[p].sel))

\* C18: a run of the sync-player-performance cron job, for a game that is
\* in progress or recently final and has an NHL game id, has its call to the
\* sync-performance endpoint accepted and leaves the PlayerPerformance records
\* the box score gives
C18_CronSyncsPerformance ==
  [][(CronSyncPerformance /\ InGamesToSync) =>
       (last'.resp = "synced" /\ perf' = SyncedPerf)]_vars

\* C19: under repeated runs of the calculate-points cron job, a final game
\* with at least one pick eventually has the points of all its picks
\* calculated
C19_EventualSettlement ==
  (game.status = "final" /\ picks # {}) ~> (\A r \in picks : r.id \in scored)

\* C20: right after an accepted pick request (a create or an update) that
\* leaves as many picks of the league as it has memberships, every pick of
\* the league is locked; and a pick just created is unlocked while the league
\* has fewer picks than memberships
C20_AutoLock ==
  [][\A l \in Leagues :
       LET rows == {r \in picks' : r.leagueId = l} IN
       (last'.op = "submit" /\ last'.resp \in {"created", "updated"}) =>
         /\ (Cardinality(rows) = Cardinality(MembersOf(l))) =>
              \A r \in rows : r.locked
         /\ (last'.resp = "created" /\ Cardinality(rows) < Cardinality(MembersOf(l))) =>
              \A r \in rows : (r.id \notin {q.id : q \in picks}) => ~r.locked]_vars

\* the pick of the last member has just been created, and all picks are locked
C20_Witness ==
  /\ last.op = "submit" /\ last.resp = "created"
  /\ \E l \in Leagues :
       /\ Cardinality(PicksOf(l)) = Cardinality(MembersOf(l))
       /\ Cardinality(PicksOf(l)) > 1
       /\ \A r \in PicksOf(l) : r.locked

\* C21: whatever the upstream reports, no step moves a game in progress back
\* to scheduled, and no step changes the status or the scores of a final game
C21_ForwardOnly ==
  [][/\ (game.status = "in_progress" => game'.status # "scheduled")
     /\ (game.status = "final" =>
           /\ game'.status = "final"
           /\ game'.homeScore = game.homeScore
           /\ game'.awayScore = game.awayScore)]_vars

\* C22: an invocation of the settlement whose box score fetch failed writes
\* the points of no pick and ends with an error
C22_FetchFailureAborts ==
  \A p \in Procs :
    (/\ game.hasPk
     /\ proc[p].pc \in {"loop", "inc", "done"}
     /\ proc[p].resp \notin {"not_final", "already_calculated"}
     /\ ~proc[p].sd.ok) =>
      /\ proc[p].updated = {}
      /\ proc[p].pc = "done" => proc[p].resp = "error"

\* C23: for a final game that went to overtime and not to a shootout, the
\* settlement takes exactly the last goal of a skater's tally for the
\* overtime goal, so that a forward with one goal earns 7 points and a
\* defenseman 8
C23_OvertimeAttribution ==
  (fx.fn = "settledSkater" /\ fx.wentToOvertime /\ ~fx.wentToShootout) =>
    /\ \A k \in 1..fx.goals : fx.events[k].isOvertime = (k = fx.goals)
    /\ fx.goals = 1 => fx.points = (IF fx.position = "Forward" THEN 7 ELSE 8)

\* C24: for every outcome of the client simulator, a team pick gets the
\* points of the server rule: the team's goals when it wins with at least 4,
\* and 0 otherwise
C24_ClientTeamPickAgrees ==
  fx.fn = "clientTeam" =>
    /\ fx.points = TeamPickPoints(fx.teamGoals, fx.opponentGoals)
    /\ fx.points = (IF fx.teamGoals > fx.opponentGoals /\ fx.teamGoals >= 4
                    THEN fx.teamGoals ELSE 0)

\* C25: after any sequence of pick requests, through the create path and the
\* update path, a team pick has no playerId and a player pick has the
\* playerId of an existing player
C25_PickVariant ==
  \A r \in picks :
    /\ r.pickType = "team" => r.playerId = Null
    /\ r.pickType = "player" => r.playerId \in Players

\* an existing pick has just been updated, and the table holds a team pick
\* and a player pick
C25_Witness ==
  /\ last.op = "submit" /\ last.resp = "updated"
  /\ \E r \in picks : r.pickType = "team"
  /\ \E r \in picks : r.pickType = "player"

\* every member has a position, and the positions are pairwise distinct and
\* are exactly 1..n for the n members
IsPermutation(position) ==
  /\ \A m \in DOMAIN position : position[m] \in 1..Cardinality(DOMAIN position)
  /\ \A m1, m2 \in DOMAIN position : m1 # m2 => position[m1] # position[m2]

\* C26: a successful setDraftOrder, whatever array passed its validation,
\* leaves the members' positions a permutation of 1..n, and a rotation of
\* positions that are one leaves them one
C26_PositionsStayPermutation ==
  [][/\ (draft'.op = "set" /\ draft'.resp = "ok") => IsPermutation(draft'.position)
     /\ (draft'.op = "rotate" /\ draft'.resp = "ok" /\ IsPermutation(draft.position))
          => IsPermutation(draft'.position)]_vars

\* C27: when two interleaved rotations of a league have both finished, the
\* positions are pairwise distinct values 1..n, and are the positions before
\* them rotated once or twice
C27_ConcurrentRotation ==
  (\A p \in Procs : rot[p].pc = "done") =>
    /\ IsPermutation(draft.position)
    /\ draft.position \in {rotated(draft.before), rotated(rotated(draft.before))}

\* C28: no step changes the selection (player or team) of a pick whose
\* pointsEarned a settlement has written
C28_SettledSelectionKept ==
  [][\A r \in picks : r.id \in scored =>
       \A r2 \in picks' : r2.id = r.id => SameSel(r, r2)]_vars

\* C29: after a settlement that failed having written points above 0 to a
\* pick, repeated settlements and cron runs lead to a state where every
\* membership's totalPoints holds the pointsEarned of its picks
C29_PartialSettlementRecovers ==
  (/\ last.op = "settle" /\ last.resp = "error"
   /\ \E r \in picks : r.id \in last.updated /\ r.pointsEarned > 0)
  ~> (\A k \in MemberKeys : members[k].totalPoints = PointsOf(k))

\* C30: a gameUserScores map saved and loaded back is the map that was
\* saved, and after the reload each user's cumulative total is the sum of
\* that user's per-game scores
C30_StorageRoundTrip ==
  fx.fn = "storage" =>
    /\ fx.loadedGameUserScores = fx.gameUserScores
    /\ \A userId \in DOMAIN fx.loadedUserScores.e :
         fx.loadedUserScores.e[userId].n = TotalIn(fx.loadedGameUserScores, userId)

====
